---- MODULE Spec2Model ----
(***************************************************************************)
(* Model of packages/remove-export/src/lib.rs: the remove-export transform *)
(* (Analyzer + RemoveExportsExprs driven by swc's Repeat pass).             *)
(*                                                                         *)
(* A module is a sequence of module items.  A binding identity (swc `Id`)  *)
(* is a number in Ids; top-level bindings are unique after the resolver,   *)
(* so the symbol of an identity is the identity itself, and the export     *)
(* name "default" is the number DefaultName.  A function body, an          *)
(* initializer and a default-exported expression are represented by the    *)
(* set of identities they reference (Expr::Ident uses).                    *)
(***************************************************************************)
EXTENDS Integers, Sequences, FiniteSets, TLC

\* ---- bounds of the input space -------------------------------------------
\* identities 1..NumIds
NumIds == 3
\* items of a module built from every item kind (over the identities
\* 1..NumIds-1); a module of function, import and export-list items (over all
\* identities) has one item more
MaxItems == 2
\* identifiers referenced by one body or initializer
MaxRefs == 1
\* declarators of one variable declaration
MaxDecls == 2
\* properties of one object pattern
MaxProps == 2
\* specifiers of one import declaration or export list
MaxSpecs == 2
\* parameters of a default-exported function
MaxParams == 1
\* targeted symbols other than "default"
MaxTargets == 1

\* the export name "default" (State::should_remove_default)
DefaultName == 0
\* no identifier: FnExpr.ident = None, ExportNamedSpecifier.exported = None
None == 0 - 1

Ids == 1..NumIds
SmallIds == 1..(NumIds - 1)
Names == Ids \cup {DefaultName}

\* ---- syntax trees --------------------------------------------------------
Range(s) == {s[i] : i \in DOMAIN s}

DistinctSeqs(S, lo, hi) ==
    {s \in UNION {[1..n -> S] : n \in lo..hi} :
        \A i, j \in DOMAIN s : i # j => s[i] # s[j]}

\* the identifiers a body, an initializer or an expression references
BodiesOver(I) == {b \in SUBSET I : Cardinality(b) <= MaxRefs}

\* Pat::Ident / Pat::Object (shorthand props without default values) / Pat::Invalid
PatIdent(i) == [t |-> "ident", id |-> i]
PatObject(p) == [t |-> "object", props |-> p]
PatInvalid == [t |-> "invalid"]

PatIds(p) ==
    IF p.t = "ident" THEN {p.id}
    ELSE IF p.t = "object" THEN Range(p.props)
    ELSE {}

VarDeclarator(p, e) == [name |-> p, init |-> e]

\* module items
ImportDecl(s) == [kind |-> "import", specifiers |-> s]
FnStmt(i, b) == [kind |-> "fn", ident |-> i, body |-> b]
VarStmt(d) == [kind |-> "var", decls |-> d]
ExportFn(i, b) == [kind |-> "exportfn", ident |-> i, body |-> b]
ExportVar(d) == [kind |-> "exportvar", decls |-> d]
ExportSpecifier(o, e) == [orig |-> o, exported |-> e]
NamedExport(s, hasSrc) == [kind |-> "exportnamed", specifiers |-> s, src |-> hasSrc]
FnExpr(i, np, b) == [ident |-> i, params |-> np, body |-> b]
DefaultDeclFn(f) == [kind |-> "defaultdecl", fn |-> f]
ExprIdent(i) == [t |-> "ident", id |-> i]
ExprFn(f) == [t |-> "fn", fn |-> f]
ExportDefaultExpr(e) == [kind |-> "defaultexpr", expr |-> e]
EmptyStmt == [kind |-> "empty"]

\* the top-level bindings an item declares
Declared(it) ==
    CASE it.kind = "import" -> Range(it.specifiers)
      [] it.kind \in {"fn", "exportfn"} -> {it.ident}
      [] it.kind \in {"var", "exportvar"} ->
            UNION {PatIds(it.decls[k].name) : k \in DOMAIN it.decls}
      [] it.kind = "defaultdecl" -> {it.fn.ident} \ {None}
      [] OTHER -> {}

IsDefault(it) == it.kind \in {"defaultdecl", "defaultexpr"}

\* ---- the input space -----------------------------------------------------
PatsOver(avail) ==
    {PatIdent(i) : i \in avail}
        \cup {PatObject(p) : p \in DistinctSeqs(avail, 1, MaxProps)}

RECURSIVE DeclListsOver(_, _, _)
DeclListsOver(avail, I, n) ==
    IF n = 0 THEN {<<>>}
    ELSE UNION {
        {<<VarDeclarator(p, e)>> \o rest :
            e \in BodiesOver(I), rest \in DeclListsOver(avail \ PatIds(p), I, n - 1)}
        : p \in PatsOver(avail)}

\* function, import and export-list items
CoreItemsOver(avail, I) ==
    {ImportDecl(s) : s \in DistinctSeqs(avail, 0, 1)}
        \cup {FnStmt(i, b) : i \in avail, b \in BodiesOver(I)}
        \cup {ExportFn(i, b) : i \in avail, b \in BodiesOver(I)}
        \cup {NamedExport(<<ExportSpecifier(o, None)>>, FALSE) : o \in I}

\* items of every kind
ItemsOver(avail, I, mayDefault) ==
    CoreItemsOver(avail, I)
        \cup {ImportDecl(s) : s \in DistinctSeqs(avail, 2, MaxSpecs)}
        \cup {VarStmt(d) : d \in UNION {DeclListsOver(avail, I, n) : n \in 1..MaxDecls}}
        \cup {ExportVar(d) : d \in UNION {DeclListsOver(avail, I, n) : n \in 1..MaxDecls}}
        \cup {NamedExport(<<ExportSpecifier(o, e)>>, h) :
                  o \in I, e \in (I \cup {DefaultName, None}), h \in BOOLEAN}
        \cup {NamedExport(s, FALSE) :
                  s \in DistinctSeqs({ExportSpecifier(o, None) : o \in I}, 2, MaxSpecs)}
        \cup (IF mayDefault
                THEN {DefaultDeclFn(FnExpr(i, MaxParams, b)) :
                          i \in avail \cup {None}, b \in BodiesOver(I)}
                     \cup {ExportDefaultExpr(ExprIdent(i)) : i \in I}
                ELSE {})

\* Modules of n items whose top-level bindings are pairwise distinct (the
\* resolver precondition) and with at most one default export.
RECURSIVE ModulesOver(_, _, _, _)
ModulesOver(avail, I, mayDefault, n) ==
    IF n = 0 THEN {<<>>}
    ELSE UNION {
        {<<it>> \o rest :
            rest \in ModulesOver(avail \ Declared(it), I,
                                 mayDefault /\ ~IsDefault(it), n - 1)}
        : it \in ItemsOver(avail, I, mayDefault)}

RECURSIVE CoreModulesOver(_, _, _)
CoreModulesOver(avail, I, n) ==
    IF n = 0 THEN {<<>>}
    ELSE UNION {
        {<<it>> \o rest : rest \in CoreModulesOver(avail \ Declared(it), I, n - 1)}
        : it \in CoreItemsOver(avail, I)}

\* Removal targets: by symmetry of the identities the targeted symbols are
\* 1..k, with or without "default".
IdTargetSets == {1..k : k \in 1..MaxTargets}
TargetSets == IdTargetSets \cup {t \cup {DefaultName} : t \in IdTargetSets \cup {{}}}

\* (module, removal targets): the function/import/export-list modules have no
\* default export, so "default" is targeted only with the other modules
SmallInputs ==
    (UNION {ModulesOver(SmallIds, SmallIds, TRUE, n) : n \in 1..MaxItems}) \X TargetSets

Inputs == SmallInputs \cup (CoreModulesOver(Ids, Ids, MaxItems + 1) \X IdTargetSets)

\* the inputs of the fair specification: one item less
LiveInputs ==
    ((UNION {ModulesOver(SmallIds, SmallIds, TRUE, n) : n \in 1..(MaxItems - 1)})
            \X TargetSets)
        \cup (CoreModulesOver(Ids, Ids, MaxItems) \X IdTargetSets)

\* ---- State (lib.rs:26-52) --------------------------------------------------
should_remove_identifier(targets, sym) == sym \in targets

should_remove_default(targets) == DefaultName \in targets

\* ---- Analyzer (lib.rs:54-280) ----------------------------------------------
\* st = [data, other, declaring, again]: refs_from_data_fn, refs_from_other,
\* cur_declaring, should_run_again
add_ref(st, id, in_data_fn) ==
    IF in_data_fn THEN [st EXCEPT !.data = @ \cup {id}]
    ELSE IF id \in st.declaring THEN st
    ELSE [st EXCEPT !.other = @ \cup {id}]

\* Analyzer::fold_expr on each Expr::Ident of a body or initializer
RECURSIVE Analyzer_fold_exprs(_, _, _)
Analyzer_fold_exprs(st, ids, in_data_fn) ==
    IF ids = {} THEN st
    ELSE LET i == CHOOSE x \in ids : TRUE
         IN Analyzer_fold_exprs(add_ref(st, i, in_data_fn), ids \ {i}, in_data_fn)

Analyzer_fold_binding_ident(st, id, in_lhs_of_var, in_data_fn) ==
    IF ~in_lhs_of_var \/ in_data_fn THEN add_ref(st, id, in_data_fn) ELSE st

RECURSIVE Analyzer_fold_binding_idents(_, _, _, _)
Analyzer_fold_binding_idents(st, ids, in_lhs_of_var, in_data_fn) ==
    IF ids = <<>> THEN st
    ELSE Analyzer_fold_binding_idents(
             Analyzer_fold_binding_ident(st, Head(ids), in_lhs_of_var, in_data_fn),
             Tail(ids), in_lhs_of_var, in_data_fn)

\* the default fold of a pattern: its binding identifiers, left to right
Analyzer_fold_pat(st, p, in_lhs_of_var, in_data_fn) ==
    CASE p.t = "ident" ->
            Analyzer_fold_binding_ident(st, p.id, in_lhs_of_var, in_data_fn)
      [] p.t = "object" ->
            Analyzer_fold_binding_idents(st, p.props, in_lhs_of_var, in_data_fn)
      [] OTHER -> st

Analyzer_fold_fn_decl(st, f, in_data_fn) ==
    LET s1 == Analyzer_fold_exprs(st, f.body, in_data_fn)
    IN IF in_data_fn THEN add_ref(s1, f.ident, in_data_fn) ELSE s1

Analyzer_fold_fn_expr(st, f, in_data_fn) ==
    LET s1 == Analyzer_fold_exprs(st, f.body, in_data_fn)
    IN IF f.ident # None THEN add_ref(s1, f.ident, in_data_fn) ELSE s1

Analyzer_fold_var_declarator(st, v, in_data_fn) ==
    Analyzer_fold_exprs(Analyzer_fold_pat(st, v.name, TRUE, in_data_fn),
                        v.init, in_data_fn)

RECURSIVE Analyzer_fold_var_declarators(_, _, _)
Analyzer_fold_var_declarators(st, decls, in_data_fn) ==
    IF decls = <<>> THEN st
    ELSE Analyzer_fold_var_declarators(
             Analyzer_fold_var_declarator(st, Head(decls), in_data_fn),
             Tail(decls), in_data_fn)

Analyzer_fold_export_named_specifier(st, s, targets, in_data_fn) ==
    IF ~should_remove_identifier(targets, s.orig)
    THEN add_ref(st, s.orig, in_data_fn)
    ELSE st

RECURSIVE Analyzer_fold_export_specifiers(_, _, _, _)
Analyzer_fold_export_specifiers(st, specs, targets, in_data_fn) ==
    IF specs = <<>> THEN st
    ELSE Analyzer_fold_export_specifiers(
             Analyzer_fold_export_named_specifier(st, Head(specs), targets, in_data_fn),
             Tail(specs), targets, in_data_fn)

Analyzer_fold_named_export(st, n, targets, in_data_fn) ==
    IF n.src
    THEN Analyzer_fold_export_specifiers(st, n.specifiers, targets, in_data_fn)
    ELSE st

\* the in_data_fn context an export declaration is folded in
export_decl_in_data_fn(s, targets, in_data_fn) ==
    CASE s.kind = "exportfn" ->
            in_data_fn \/ should_remove_identifier(targets, s.ident)
      [] s.kind = "exportvar" ->
            in_data_fn \/ (/\ s.decls[1].name.t = "ident"
                           /\ should_remove_identifier(targets, s.decls[1].name.id))

Analyzer_fold_export_decl(st, s, targets, in_data_fn) ==
    CASE s.kind = "exportfn" ->
            LET d == export_decl_in_data_fn(s, targets, in_data_fn)
                s1 == IF should_remove_identifier(targets, s.ident)
                      THEN add_ref(st, s.ident, TRUE) ELSE st
            IN Analyzer_fold_fn_decl(s1, s, d)
      [] s.kind = "exportvar" ->
            IF s.decls = <<>> THEN st
            ELSE LET d == export_decl_in_data_fn(s, targets, in_data_fn)
                     s1 == IF /\ s.decls[1].name.t = "ident"
                              /\ should_remove_identifier(targets, s.decls[1].name.id)
                           THEN add_ref(st, s.decls[1].name.id, TRUE) ELSE st
                 IN Analyzer_fold_var_declarators(s1, s.decls, d)

Analyzer_check_default(st, s, targets, in_data_fn) ==
    LET d == in_data_fn \/ should_remove_default(targets)
    IN CASE s.kind = "defaultdecl" -> Analyzer_fold_fn_expr(st, s.fn, d)
         [] s.kind = "defaultexpr" ->
               IF s.expr.t = "ident" THEN add_ref(st, s.expr.id, d)
               ELSE Analyzer_fold_fn_expr(st, s.expr.fn, d)

\* the item Analyzer::fold_module_item returns
Analyzer_module_item_result(s, targets) ==
    CASE s.kind = "exportfn" /\ should_remove_identifier(targets, s.ident) -> EmptyStmt
      [] s.kind = "exportvar" /\ s.decls = <<>> -> EmptyStmt
      [] OTHER -> s

\* Analyzer::fold_module_item at module level (in_data_fn = false):
\* [st |-> the state after, item |-> the item returned]
Analyzer_fold_module_item(st, s, targets) ==
    LET st1 ==
          CASE s.kind = "exportnamed" ->
                  Analyzer_fold_named_export(st, s, targets, FALSE)
            [] s.kind = "fn" -> Analyzer_fold_fn_decl(st, s, FALSE)
            [] s.kind = "var" -> Analyzer_fold_var_declarators(st, s.decls, FALSE)
            [] s.kind \in {"exportfn", "exportvar"} ->
                  Analyzer_fold_export_decl(st, s, targets, FALSE)
            [] s.kind \in {"defaultdecl", "defaultexpr"} ->
                  Analyzer_check_default(st, s, targets, FALSE)
            [] OTHER -> st
    IN [st |-> st1, item |-> Analyzer_module_item_result(s, targets)]

\* ---- RemoveExportsExprs (lib.rs:282-624) -----------------------------------
\* mutant: OtherRefs is not consulted
should_remove_data_only(st, id) == id \in st.data

should_remove(st, id) == id \in st.data /\ id \notin st.other

\* mutant: should_run_again is not set
mark_as_candidate_unflagged(st, refs) == Analyzer_fold_exprs(st, refs, TRUE)

\* mark_as_candidate(n): an Analyzer with in_data_fn = true folds n (given by
\* the identifiers it references), then should_run_again is set
mark_as_candidate(st, refs) ==
    [Analyzer_fold_exprs(st, refs, TRUE) EXCEPT !.again = TRUE]

create_empty_fn == FnExpr(None, 0, {})

\* mutant: should_run_again is set whether or not a specifier is dropped
fold_import_decl_always_again(st, i) ==
    IF i.specifiers = <<>> THEN [st |-> st, item |-> i]
    ELSE LET kept == SelectSeq(i.specifiers, LAMBDA l : ~should_remove(st, l))
         IN [st |-> [st EXCEPT !.again = TRUE],
             item |-> [i EXCEPT !.specifiers = kept]]

\* [st, item]
fold_import_decl(st, i) ==
    IF i.specifiers = <<>> THEN [st |-> st, item |-> i]
    ELSE LET kept == SelectSeq(i.specifiers, LAMBDA l : ~should_remove(st, l))
         IN [st |-> [st EXCEPT !.again = @ \/ Len(kept) < Len(i.specifiers)],
             item |-> [i EXCEPT !.specifiers = kept]]

\* the filter_map over the props of an object pattern: [st, props]
RECURSIVE fold_object_pat_props(_, _)
fold_object_pat_props(st, props) ==
    IF props = <<>> THEN [st |-> st, props |-> <<>>]
    ELSE IF should_remove(st, Head(props))
         THEN fold_object_pat_props(mark_as_candidate(st, {}), Tail(props))
         ELSE LET r == fold_object_pat_props(st, Tail(props))
              IN [st |-> r.st, props |-> <<Head(props)>> \o r.props]

\* fold_pat with in_lhs_of_var = true: [st, pat]
fold_pat(st, p) ==
    CASE p.t = "ident" ->
            IF should_remove(st, p.id)
            THEN [st |-> [st EXCEPT !.again = TRUE], pat |-> PatInvalid]
            ELSE [st |-> st, pat |-> p]
      [] p.t = "object" ->
            IF p.props = <<>> THEN [st |-> st, pat |-> p]
            ELSE LET r == fold_object_pat_props(st, p.props)
                 IN [st |-> r.st,
                     pat |-> IF r.props = <<>> THEN PatInvalid ELSE PatObject(r.props)]
      [] OTHER -> [st |-> st, pat |-> p]

\* [st, decl]
fold_var_declarator(st, d) ==
    LET r == fold_pat(st, d.name)
    IN [st |-> IF r.pat = PatInvalid THEN mark_as_candidate(r.st, d.init) ELSE r.st,
        decl |-> VarDeclarator(r.pat, d.init)]

\* the fold of each declarator, in order: [st, decls]
RECURSIVE fold_var_declarators_children(_, _)
fold_var_declarators_children(st, decls) ==
    IF decls = <<>> THEN [st |-> st, decls |-> <<>>]
    ELSE LET r == fold_var_declarator(st, Head(decls))
             rest == fold_var_declarators_children(r.st, Tail(decls))
         IN [st |-> rest.st, decls |-> <<r.decl>> \o rest.decls]

fold_var_declarators(st, decls) ==
    LET r == fold_var_declarators_children(st, decls)
    IN [st |-> r.st,
        decls |-> SelectSeq(r.decls, LAMBDA d : d.name # PatInvalid)]

\* the retain over the export specifiers: [st, specifiers]
RECURSIVE fold_named_export_specifiers(_, _, _)
fold_named_export_specifiers(st, specs, targets) ==
    IF specs = <<>> THEN [st |-> st, specifiers |-> <<>>]
    ELSE LET s == Head(specs)
             name == IF s.exported # None THEN s.exported ELSE s.orig
         IN IF should_remove_identifier(targets, name)
            THEN fold_named_export_specifiers(
                     [st EXCEPT !.again = TRUE, !.data = @ \cup {s.orig}],
                     Tail(specs), targets)
            ELSE LET r == fold_named_export_specifiers(st, Tail(specs), targets)
                 IN [st |-> r.st, specifiers |-> <<s>> \o r.specifiers]

fold_named_export(st, n, targets) ==
    LET r == fold_named_export_specifiers(st, n.specifiers, targets)
    IN [st |-> r.st, item |-> [n EXCEPT !.specifiers = r.specifiers]]

fold_default_decl(d, targets) ==
    IF should_remove_default(targets) THEN DefaultDeclFn(create_empty_fn) ELSE d

fold_export_default_expr(n, targets) ==
    IF should_remove_default(targets)
    THEN ExportDefaultExpr(ExprFn(create_empty_fn))
    ELSE n

fold_stmt(st, s) ==
    CASE s.kind = "fn" ->
            IF should_remove(st, s.ident)
            THEN [st |-> mark_as_candidate(st, s.body), item |-> EmptyStmt]
            ELSE [st |-> st, item |-> s]
      [] s.kind = "var" ->
            LET r == fold_var_declarators(st, s.decls)
            IN [st |-> r.st,
                item |-> IF r.decls = <<>> THEN EmptyStmt ELSE VarStmt(r.decls)]
      [] OTHER -> [st |-> st, item |-> s]

\* RemoveExportsExprs::fold_module_item: [st, item]
fold_module_item(st, i, targets) ==
    CASE i.kind = "import" ->
            LET r == fold_import_decl(st, i)
            IN IF i.specifiers # <<>> /\ r.item.specifiers = <<>>
               THEN [st |-> r.st, item |-> EmptyStmt]
               ELSE r
      [] i.kind = "exportnamed" ->
            LET r == fold_named_export(st, i, targets)
            IN IF r.item.specifiers = <<>>
               THEN [st |-> r.st, item |-> EmptyStmt]
               ELSE r
      [] i.kind = "exportvar" ->
            LET r == fold_var_declarators(st, i.decls)
            IN [st |-> r.st, item |-> ExportVar(r.decls)]
      [] i.kind = "defaultdecl" -> [st |-> st, item |-> fold_default_decl(i, targets)]
      [] i.kind = "defaultexpr" ->
            [st |-> st, item |-> fold_export_default_expr(i, targets)]
      [] i.kind \in {"fn", "var", "empty"} -> fold_stmt(st, i)
      [] OTHER -> [st |-> st, item |-> i]

\* the retain of fold_module_items
drop_empty(items) == SelectSeq(items, LAMBDA s : s # EmptyStmt)

\* ---- the transform as a state machine --------------------------------------
VARIABLES
    body,               \* Module.body, the items of the module being folded
    remove_exports,     \* State.remove_exports
    refs_from_other,    \* State.refs_from_other ("OtherRefs")
    refs_from_data_fn,  \* State.refs_from_data_fn ("DataRefs")
    cur_declaring,      \* State.cur_declaring
    should_run_again,   \* State.should_run_again
    pc,                 \* where the invocation is: start, reset, analyze, rewrite,
                        \* retain, changed, done
    idx,                \* the item the Analyzer or the rewriter folds next
    input,              \* the module remove_export_exprs was first given
    passes,             \* passes completed in this invocation
    pass_body,          \* body at the start of the current pass
    pass_data,          \* refs_from_data_fn at the start of the current pass
    run,                \* 1: first invocation, 2: invocation on its output
    first_output        \* the module the first invocation returned

vars == <<body, remove_exports, refs_from_other, refs_from_data_fn, cur_declaring,
          should_run_again, pc, idx, input, passes, pass_body, pass_data, run,
          first_output>>

State == [data |-> refs_from_data_fn, other |-> refs_from_other,
          declaring |-> cur_declaring, again |-> should_run_again]

SetState(st) ==
    /\ refs_from_data_fn' = st.data
    /\ refs_from_other' = st.other
    /\ cur_declaring' = st.declaring
    /\ should_run_again' = st.again

\* before the host calls the plugin
Init ==
    /\ body = <<>>
    /\ remove_exports = {}
    /\ refs_from_other = {}
    /\ refs_from_data_fn = {}
    /\ cur_declaring = {}
    /\ should_run_again = FALSE
    /\ pc = "start"
    /\ idx = 1
    /\ input = <<>>
    /\ passes = 0
    /\ pass_body = <<>>
    /\ pass_data = {}
    /\ run = 1
    /\ first_output = <<>>

\* process_transform: program.fold_with(&mut remove_export_exprs(tr)), with
\* State { remove_exports, ..Default::default() }
process_transform ==
    /\ pc = "start"
    /\ \E inp \in Inputs :
          /\ body' = inp[1]
          /\ remove_exports' = inp[2]
          /\ input' = inp[1]
          /\ pass_body' = inp[1]
    /\ pc' = "reset"
    /\ UNCHANGED <<refs_from_other, refs_from_data_fn, cur_declaring,
                   should_run_again, idx, passes, pass_data, run, first_output>>

\* mutant: reset() also clears refs_from_data_fn
Reset_clearing_data ==
    /\ \/ pc = "reset"
       \/ pc = "changed" /\ should_run_again
    /\ refs_from_other' = {}
    /\ refs_from_data_fn' = {}
    /\ cur_declaring' = {}
    /\ should_run_again' = FALSE
    /\ pc' = IF body = <<>> THEN "retain" ELSE "analyze"
    /\ idx' = 1
    /\ pass_body' = body
    /\ pass_data' = {}
    /\ UNCHANGED <<body, remove_exports, input, passes, run, first_output>>

\* Repeat: reset() before the first pass and again while changed()
Reset ==
    /\ \/ pc = "reset"
       \/ pc = "changed" /\ should_run_again
    /\ refs_from_other' = {}
    /\ cur_declaring' = {}
    /\ should_run_again' = FALSE
    /\ pc' = IF body = <<>> THEN "retain" ELSE "analyze"
    /\ idx' = 1
    /\ pass_body' = body
    /\ pass_data' = refs_from_data_fn
    /\ UNCHANGED <<body, remove_exports, refs_from_data_fn, input, passes, run,
                   first_output>>

\* fold_module, first half: the Analyzer folds the next item
AnalyzeItem ==
    /\ pc = "analyze"
    /\ LET r == Analyzer_fold_module_item(State, body[idx], remove_exports)
       IN /\ SetState(r.st)
          /\ body' = [body EXCEPT ![idx] = r.item]
    /\ IF idx = Len(body)
       THEN pc' = "rewrite" /\ idx' = 1
       ELSE pc' = pc /\ idx' = idx + 1
    /\ UNCHANGED <<remove_exports, input, passes, pass_body, pass_data, run,
                   first_output>>

\* fold_module, second half: fold_module_items folds the next item
RewriteItem ==
    /\ pc = "rewrite"
    /\ LET r == fold_module_item(State, body[idx], remove_exports)
       IN /\ SetState(r.st)
          /\ body' = [body EXCEPT ![idx] = r.item]
    /\ IF idx = Len(body)
       THEN pc' = "retain" /\ idx' = 1
       ELSE pc' = pc /\ idx' = idx + 1
    /\ UNCHANGED <<remove_exports, input, passes, pass_body, pass_data, run,
                   first_output>>

\* fold_module_items drops the empty statements; the pass is over
Retain ==
    /\ pc = "retain"
    /\ body' = drop_empty(body)
    /\ pc' = "changed"
    /\ passes' = passes + 1
    /\ UNCHANGED <<remove_exports, refs_from_other, refs_from_data_fn,
                   cur_declaring, should_run_again, idx, input, pass_body,
                   pass_data, run, first_output>>

\* Repeat: changed() is false, the module is returned
Finish ==
    /\ pc = "changed"
    /\ ~should_run_again
    /\ pc' = "done"
    /\ UNCHANGED <<body, remove_exports, refs_from_other, refs_from_data_fn,
                   cur_declaring, should_run_again, idx, input, passes, pass_body,
                   pass_data, run, first_output>>

\* remove_export_exprs(remove_exports) again, on the module just returned
Reinvoke ==
    /\ pc = "done"
    /\ run = 1
    /\ run' = 2
    /\ first_output' = body
    /\ refs_from_other' = {}
    /\ refs_from_data_fn' = {}
    /\ cur_declaring' = {}
    /\ should_run_again' = FALSE
    /\ pc' = "reset"
    /\ idx' = 1
    /\ passes' = 0
    /\ pass_body' = body
    /\ pass_data' = {}
    /\ UNCHANGED <<body, remove_exports, input>>

\* process_transform on the inputs of the fair specification
process_transform_live ==
    /\ pc = "start"
    /\ \E inp \in LiveInputs :
          /\ body' = inp[1]
          /\ remove_exports' = inp[2]
          /\ input' = inp[1]
          /\ pass_body' = inp[1]
    /\ pc' = "reset"
    /\ UNCHANGED <<refs_from_other, refs_from_data_fn, cur_declaring,
                   should_run_again, idx, passes, pass_data, run, first_output>>

Next == process_transform \/ Reset \/ AnalyzeItem \/ RewriteItem \/ Retain \/ Finish

Spec == Init /\ [][Next]_vars

NextTwice == Next \/ Reinvoke

SpecTwice == Init /\ [][NextTwice]_vars
NextLive == process_transform_live \/ Reset \/ AnalyzeItem \/ RewriteItem \/ Retain \/ Finish

\* The plugin call is synchronous and single-threaded: once called, it runs
\* each step of the loop until it returns.
FairSpec == Init /\ [][NextLive]_vars /\ WF_vars(NextLive)

\* ---- vocabulary of the properties ------------------------------------------
Done == pc = "done"


DeclaredIn(m) == UNION {Declared(m[k]) : k \in DOMAIN m}

\* the identities the code of an item references; a specifier of an export
\* list without `from` references the local binding it exports
ItemRefs(it) ==
    CASE it.kind \in {"fn", "exportfn"} -> it.body
      [] it.kind \in {"var", "exportvar"} ->
            UNION {it.decls[k].init : k \in DOMAIN it.decls}
      [] it.kind = "exportnamed" ->
            IF it.src THEN {}
            ELSE {it.specifiers[k].orig : k \in DOMAIN it.specifiers}
      [] it.kind = "defaultdecl" -> it.fn.body
      [] it.kind = "defaultexpr" ->
            IF it.expr.t = "ident" THEN {it.expr.id} ELSE it.expr.fn.body
      [] OTHER -> {}

ReferencedIn(m) == UNION {ItemRefs(m[k]) : k \in DOMAIN m}

\* ---- C1 ---------------------------------------------------------------------
\* C1 (soundness): when every identity the input references has a declaration
\* or import, every identity still referenced by the returned module
\* (remaining export specifiers included) has a declaration or import in it.
C1_Soundness ==
    (Done /\ ReferencedIn(input) \subseteq DeclaredIn(input))
        => ReferencedIn(body) \subseteq DeclaredIn(body)
\* ---- C2 ---------------------------------------------------------------------
\* the exported name of a specifier
SpecifierName(sp) == IF sp.exported # None THEN sp.exported ELSE sp.orig

\* the identities the removal targets designate for removal: the targeted
\* symbols and, when "default" is targeted, the default-exported function's name
Designated(m, targets) ==
    targets \cup UNION {IF m[k].kind = "defaultdecl" /\ DefaultName \in targets
                        THEN {m[k].fn.ident} ELSE {} : k \in DOMAIN m}

\* the identities the exports that are not removal targets name or reference
SurvivingExportRefs(m, targets) ==
    UNION {
        LET it == m[k] IN
        CASE it.kind = "exportfn" -> IF it.ident \in targets THEN {} ELSE it.body
          [] it.kind = "exportvar" ->
                UNION {IF PatIds(it.decls[j].name) \cap targets = {}
                       THEN it.decls[j].init ELSE {} : j \in DOMAIN it.decls}
          [] it.kind = "exportnamed" ->
                IF it.src THEN {}
                ELSE {it.specifiers[j].orig : j \in
                        {i \in DOMAIN it.specifiers :
                            SpecifierName(it.specifiers[i]) \notin targets}}
          [] it.kind \in {"defaultdecl", "defaultexpr"} ->
                IF DefaultName \in targets THEN {} ELSE ItemRefs(it)
          [] OTHER -> {}
        : k \in DOMAIN m}

\* the identities the declaration of id references (its body or initializer)
DeclRefs(m, id) ==
    UNION {
        LET it == m[k] IN
        CASE it.kind \in {"fn", "exportfn"} -> IF it.ident = id THEN it.body ELSE {}
          [] it.kind \in {"var", "exportvar"} ->
                UNION {IF id \in PatIds(it.decls[j].name)
                       THEN it.decls[j].init ELSE {} : j \in DOMAIN it.decls}
          [] it.kind = "defaultdecl" -> IF it.fn.ident = id THEN it.fn.body ELSE {}
          [] OTHER -> {}
        : k \in DOMAIN m}

\* the identities reachable from R through bodies and initializers
RECURSIVE Reach(_, _)
Reach(m, R) ==
    LET more == R \cup UNION {DeclRefs(m, id) : id \in R}
    IN IF more = R THEN R ELSE Reach(m, more)

\* how m declares id: the kind of each declaring item and the body or
\* initializer of the declaration (empty when m does not declare id)
Binding(m, id) ==
    UNION {
        LET it == m[k] IN
        IF id \in Declared(it)
        THEN {[kind |-> it.kind, code |-> DeclRefs(<<it>>, id)]}
        ELSE {}
        : k \in DOMAIN m}

\* C2 (conservativeness): a declaration or import whose identity is reachable
\* from an export that is not a removal target is declared in the returned
\* module as it was in the input.
C2_Conservative ==
    Done =>
        \A id \in Reach(input, SurvivingExportRefs(input, remove_exports))
                    \ Designated(input, remove_exports) :
            Binding(body, id) = Binding(input, id)
\* ---- C3 ---------------------------------------------------------------------
\* the names a module exports
ExportedNames(m) ==
    UNION {
        LET it == m[k] IN
        CASE it.kind = "exportfn" -> {it.ident}
          [] it.kind = "exportvar" ->
                UNION {PatIds(it.decls[j].name) : j \in DOMAIN it.decls}
          [] it.kind = "exportnamed" ->
                {SpecifierName(it.specifiers[j]) : j \in DOMAIN it.specifiers}
          [] it.kind \in {"defaultdecl", "defaultexpr"} -> {DefaultName}
          [] OTHER -> {}
        : k \in DOMAIN m}

\* C3 (only designated exports are removed): every name the input exports
\* that is not a removal target is still exported by the returned module.
C3_OnlyDesignated ==
    Done => (ExportedNames(input) \ remove_exports) \subseteq ExportedNames(body)

\* ---- C4 ---------------------------------------------------------------------
\* the identities the bodies and initializers of the targeted exports reference
TargetedExportRefs(m, targets) ==
    UNION {
        LET it == m[k] IN
        CASE it.kind = "exportfn" -> IF it.ident \in targets THEN it.body ELSE {}
          [] it.kind = "exportvar" ->
                UNION {IF PatIds(it.decls[j].name) \cap targets # {}
                       THEN it.decls[j].init ELSE {} : j \in DOMAIN it.decls}
          [] it.kind \in {"defaultdecl", "defaultexpr"} ->
                IF DefaultName \in targets THEN ItemRefs(it) ELSE {}
          [] OTHER -> {}
        : k \in DOMAIN m}

\* the identities declared by items that are not exports
LocallyDeclared(m) ==
    UNION {IF m[k].kind \in {"fn", "var", "import"} THEN Declared(m[k]) ELSE {}
           : k \in DOMAIN m}

\* the identities referenced by the declarations that are neither exports nor
\* reachable from a targeted export
UnreachedLocalRefs(m, reached) ==
    UNION {
        LET it == m[k] IN
        CASE it.kind = "fn" -> IF it.ident \in reached THEN {} ELSE it.body
          [] it.kind = "var" ->
                UNION {IF PatIds(it.decls[j].name) \subseteq reached
                       THEN {} ELSE it.decls[j].init : j \in DOMAIN it.decls}
          [] OTHER -> {}
        : k \in DOMAIN m}

\* the identities reachable only through the targeted exports
OnlyFromRemoved(m, targets) ==
    LET reached == Reach(m, TargetedExportRefs(m, targets))
        live == Reach(m, SurvivingExportRefs(m, targets)
                            \cup UnreachedLocalRefs(m, reached))
    IN (reached \ live) \cap LocallyDeclared(m)

\* C4 (closure completeness): a declaration reachable only through the bodies
\* and initializers of the targeted exports, helpers that reference themselves
\* or each other included, is absent from the returned module.
C4_ClosureComplete ==
    Done => OnlyFromRemoved(input, remove_exports) \cap DeclaredIn(body) = {}

\* ---- C5 ---------------------------------------------------------------------
\* the default exports of a module: default declarations, default expressions
\* and specifiers exported as "default"
DefaultExports(m) ==
    {<<k, 0>> : k \in {i \in DOMAIN m : IsDefault(m[i])}}
        \cup UNION {
            IF m[k].kind = "exportnamed"
            THEN {<<k, j>> : j \in {i \in DOMAIN m[k].specifiers :
                                      SpecifierName(m[k].specifiers[i]) = DefaultName}}
            ELSE {}
            : k \in DOMAIN m}

IsEmptyFn(f) == f.ident = None /\ f.params = 0 /\ f.body = {}

IsEmptyDefault(it) ==
    \/ it.kind = "defaultdecl" /\ IsEmptyFn(it.fn)
    \/ it.kind = "defaultexpr" /\ it.expr.t = "fn" /\ IsEmptyFn(it.expr.fn)

\* C5 (default-export shape): when the input has exactly one default export,
\* in any form, and "default" is targeted, the returned module has exactly one
\* default export, a function with no name, no parameters and an empty body.
C5_DefaultShape ==
    (Done /\ DefaultName \in remove_exports /\ Cardinality(DefaultExports(input)) = 1)
        => /\ Cardinality(DefaultExports(body)) = 1
           /\ \A e \in DefaultExports(body) : IsEmptyDefault(body[e[1]])

\* ---- C8 ---------------------------------------------------------------------
\* the names declared by exported function and variable declarations
ExportDeclNames(m) ==
    UNION {
        LET it == m[k] IN
        CASE it.kind = "exportfn" -> {it.ident}
          [] it.kind = "exportvar" ->
                {it.decls[j].name.id :
                    j \in {i \in DOMAIN it.decls : it.decls[i].name.t = "ident"}}
          [] OTHER -> {}
        : k \in DOMAIN m}

\* C8 (targeted export declarations are removed): no exported function
\* declaration or exported variable declarator of the returned module declares
\* a removal target.
C8_TargetsRemoved ==
    Done => ExportDeclNames(body) \cap remove_exports = {}

\* ---- C9 ---------------------------------------------------------------------
\* the exported variable declarators of a module
ExportVarDeclarators(m) ==
    UNION {IF m[k].kind = "exportvar" THEN Range(m[k].decls) ELSE {} : k \in DOMAIN m}

\* C9 (destructured exports): an exported declarator whose object pattern binds
\* both targeted and other names is returned with the targeted names stripped
\* from the pattern and with the other names and the initializer kept.
C9_Destructured ==
    Done =>
        \A d \in ExportVarDeclarators(input) :
            (/\ d.name.t = "object"
             /\ Range(d.name.props) \cap remove_exports # {}
             /\ Range(d.name.props) \ remove_exports # {})
            => VarDeclarator(
                   PatObject(SelectSeq(d.name.props, LAMBDA n : n \notin remove_exports)),
                   d.init) \in ExportVarDeclarators(body)
\* ---- C6 ---------------------------------------------------------------------
\* C6 (idempotence): the invocation on the module the first invocation
\* returned never sets should_run_again, completes exactly one pass and
\* returns that module unchanged.
C6_Idempotent ==
    run = 2 =>
        /\ ~should_run_again
        /\ passes <= 1
        /\ (pc \in {"changed", "done"} => body = first_output)
        /\ (Done => passes = 1)

\* the second invocation has returned, on a module the first one had pruned
\* in several passes without emptying it
C6_Witness ==
    /\ run = 2
    /\ Done
    /\ first_output # input
    /\ first_output # <<>>
    /\ refs_from_data_fn # {}
\* ---- C7 ---------------------------------------------------------------------
RECURSIVE SeqSum(_)
SeqSum(ns) == IF ns = <<>> THEN 0 ELSE Head(ns) + SeqSum(Tail(ns))

PatNodes(p) ==
    CASE p.t = "ident" -> 1
      [] p.t = "object" -> 1 + Len(p.props)
      [] OTHER -> 1

\* the number of syntax nodes of an item: the item, its specifiers, its
\* declarators and their patterns, its body
ItemNodes(it) ==
    CASE it.kind \in {"import", "exportnamed"} -> 1 + Len(it.specifiers)
      [] it.kind \in {"fn", "exportfn"} -> 2 + Cardinality(it.body)
      [] it.kind \in {"var", "exportvar"} ->
            1 + SeqSum([j \in DOMAIN it.decls |->
                          1 + PatNodes(it.decls[j].name)
                            + Cardinality(it.decls[j].init)])
      [] it.kind = "defaultdecl" -> 2 + it.fn.params + Cardinality(it.fn.body)
      [] it.kind = "defaultexpr" ->
            IF it.expr.t = "ident" THEN 2
            ELSE 2 + it.expr.fn.params + Cardinality(it.expr.fn.body)
      [] OTHER -> 1

NodeCount(m) == SeqSum([k \in DOMAIN m |-> ItemNodes(m[k])])

\* a pass that set should_run_again removed a node or enlarged DataRefs
PassProgress ==
    (pc = "changed" /\ should_run_again)
        => \/ NodeCount(body) < NodeCount(pass_body)
           \/ (pass_data \subseteq refs_from_data_fn /\ pass_data # refs_from_data_fn)

\* the number of passes is bounded by the size of the input
PassBound == passes <= NodeCount(input) + 1

\* C7 (termination): every invocation reaches a pass that leaves
\* should_run_again false and returns; a pass that sets should_run_again
\* removes a node of the module or enlarges DataRefs, and the number of passes
\* is bounded by the size of the input.
C7_Termination == [](PassProgress /\ PassBound) /\ <>Done

\* the invocation has returned after three passes or more
C7_Witness == Done /\ passes >= 3

\* ---- C10 --------------------------------------------------------------------
\* the import declarations without specifiers, in module order
SideEffectImports(m) == SelectSeq(m, LAMBDA it : it = ImportDecl(<<>>))

\* what the rewriter is to return for the import declaration i when DataRefs
\* is data and OtherRefs is other
PrunedImport(i, data, other) ==
    LET kept == SelectSeq(i.specifiers, LAMBDA l : ~(l \in data /\ l \notin other))
    IN IF i.specifiers = <<>> THEN i
       ELSE IF kept = <<>> THEN EmptyStmt
       ELSE ImportDecl(kept)

C10_Step ==
    /\ (pc = "rewrite" /\ body[idx].kind = "import")
          => body'[idx] = PrunedImport(body[idx], refs_from_data_fn, refs_from_other)
    /\ pc = "retain" => \A k \in DOMAIN body' : body'[k] # EmptyStmt
    /\ pc # "start" => SideEffectImports(body') = SideEffectImports(body)

\* C10 (import pruning): the rewriter drops an import specifier exactly when
\* its local identity is in DataRefs and not in OtherRefs; an import declaration
\* that loses all its specifiers is gone from the module when the pass ends; an
\* import declaration without specifiers is never removed or changed.
C10_ImportPruning == [][C10_Step]_vars

\* a pass has ended in which an import declaration lost all its specifiers
\* and was removed, while a side-effect import stayed
C10_Witness ==
    /\ pc = "changed"
    /\ \E k \in DOMAIN pass_body :
          pass_body[k].kind = "import" /\ pass_body[k].specifiers # <<>>
    /\ \A j \in DOMAIN body : body[j].kind = "import" => body[j].specifiers = <<>>
    /\ SideEffectImports(body) # <<>>

\* ---- C11, C12: the effects of the Analyzer and of the loop on the state ----
\* a step of the Analyzer pass of fold_module
AnalyzerStep == pc = "analyze"

\* a step of the rewriter (mark_as_candidate included) or of its retain
RewriterStep == pc \in {"rewrite", "retain"}

\* the Analyzer pass is about to fold the first item
AnalyzerPassStarts == pc = "analyze" /\ idx = 1

C11_Step ==
    AnalyzerStep =>
        /\ body' = body
        /\ UNCHANGED <<remove_exports, cur_declaring, should_run_again>>

\* C11: the Analyzer is read-only: every step of the Analyzer pass leaves the
\* module, item for item, as it was given (so the rewriter receives the module
\* the Analyzer received); only the reference sets change.
C11_AnalyzerReadOnly == [][C11_Step]_vars

C12_Step ==
    /\ refs_from_data_fn \subseteq refs_from_data_fn'
    /\ AnalyzerPassStarts' => refs_from_other' = {}
    /\ RewriterStep => refs_from_other' = refs_from_other

\* C12: within one invocation no step (Analyzer, mark_as_candidate, rewriter,
\* reset) removes an element of refs_from_data_fn; refs_from_other is empty
\* when an Analyzer pass starts and no step of the rewriter or of
\* mark_as_candidate changes it.
C12_RefSets == [][C12_Step]_vars

\* a later pass starts: refs_from_other has been cleared, refs_from_data_fn
\* keeps what earlier passes put there, among it a declaration that the
\* earlier pass left in the module
C12_Witness ==
    /\ AnalyzerPassStarts
    /\ passes >= 1
    /\ refs_from_other = {}
    /\ refs_from_data_fn \ remove_exports # {}
    /\ \E k \in DOMAIN body : Declared(body[k]) \cap refs_from_data_fn # {}
====
